---- MODULE Spec2Model ----
(***************************************************************************)
(* scripts/database/create-table-python.py: a run-once provisioning script *)
(* that connects to a MySQL server, issues one CREATE TABLE IF NOT EXISTS  *)
(* for access_logs, commits, verifies with SHOW TABLES LIKE and DESCRIBE,  *)
(* closes cursor and connection and exits.                                 *)
(*                                                                         *)
(* The model holds the script (its control position, its local variables,  *)
(* what it printed, its exit code) and the database server it talks to     *)
(* (the tables of the tshla_medical schema and the one server option that  *)
(* decides the nullability of a TIMESTAMP column).  Every library call the *)
(* script makes either returns or raises; which of the two is the          *)
(* environment's choice.  Not modelled: KeyboardInterrupt and failures of  *)
(* print() itself.                                                         *)
(***************************************************************************)
EXTENDS Integers, Sequences, FiniteSets, TLC

\* Bounds of the model.
MaxRows == 1
MaxRuns == 2

---------------------------------------------------------------------------
(* Table names, as character sequences so that LIKE can be computed.       *)

TableNames == {"access_logs", "access1logs", "pump_users"}

Chars(name) ==
  CASE name = "access_logs" -> <<"a","c","c","e","s","s","_","l","o","g","s">>
    [] name = "access1logs" -> <<"a","c","c","e","s","s","1","l","o","g","s">>
    [] name = "pump_users"  -> <<"p","u","m","p","_","u","s","e","r","s">>

\* SQL LIKE: '_' matches exactly one character, '%' any run of characters.
RECURSIVE LikeMatch(_, _)
LikeMatch(pat, s) ==
  IF pat = <<>> THEN s = <<>>
  ELSE IF Head(pat) = "%"
    THEN LikeMatch(Tail(pat), s) \/ (s # <<>> /\ LikeMatch(pat, Tail(s)))
  ELSE /\ s # <<>>
       /\ (Head(pat) = "_" \/ Head(pat) = Head(s))
       /\ LikeMatch(Tail(pat), Tail(s))

---------------------------------------------------------------------------
(* Tables.  A column is [name, type, notnull, key]; a foreign key is       *)
(* [column, ref_table, ref_column, on_delete].                             *)

NoTable ==
  [exists |-> FALSE, columns |-> <<>>, indexes |-> {}, fks |-> {}, rows |-> {}]

Col(n, t, nn, k) == [name |-> n, type |-> t, notnull |-> nn, key |-> k]

\* The column list of the statement, as written (lines 29-35): notnull is
\* TRUE only where the statement says NOT NULL.
DeclaredColumns ==
  << Col("id",                   "int",          FALSE, "PRI"),
     Col("user_id",              "int",          TRUE,  "MUL"),
     Col("access_type",          "varchar(50)",  TRUE,  "MUL"),
     Col("payment_amount_cents", "int",          FALSE, ""),
     Col("ip_address",           "varchar(45)",  FALSE, ""),
     Col("user_agent",           "text",         FALSE, ""),
     Col("created_at",           "timestamp",    FALSE, "MUL") >>

DeclaredIndexes == {"user_id", "access_type", "created_at"}

DeclaredForeignKeys ==
  {[column |-> "user_id", ref_table |-> "pump_users", ref_column |-> "id",
    on_delete |-> "CASCADE"]}

\* What the server stores for a declared column: a PRIMARY KEY column is
\* NOT NULL, and a TIMESTAMP column declared without NULL / NOT NULL is
\* NOT NULL unless explicit_defaults_for_timestamp is on.
StoredColumn(c, edt) ==
  [c EXCEPT !.notnull = c.notnull \/ c.key = "PRI"
                        \/ (c.type = "timestamp" /\ ~edt)]

AccessLogsTable(edt) ==
  [exists  |-> TRUE,
   columns |-> [i \in 1..Len(DeclaredColumns) |-> StoredColumn(DeclaredColumns[i], edt)],
   indexes |-> DeclaredIndexes,
   fks     |-> DeclaredForeignKeys,
   rows    |-> {}]

\* The statement's result on database d: CREATE TABLE IF NOT EXISTS is a
\* no-op when access_logs exists; otherwise the foreign key needs its
\* referenced table, and the table is created empty.
\* Returns [ok, db]; ok = FALSE is a server error (mysql.connector.Error).
CreateTableNoFkCheck(d, edt) ==
  IF d["access_logs"].exists
    THEN [ok |-> TRUE, db |-> d]
    ELSE [ok |-> TRUE, db |-> [d EXCEPT !["access_logs"] = AccessLogsTable(edt)]]

CreateTableReplacing(d, edt) ==
  IF \E fk \in DeclaredForeignKeys : ~d[fk.ref_table].exists
    THEN [ok |-> FALSE, db |-> d]
    ELSE [ok |-> TRUE, db |-> [d EXCEPT !["access_logs"] = AccessLogsTable(edt)]]

CreateTableShortColumns(d, edt) ==
  IF d["access_logs"].exists
    THEN [ok |-> TRUE, db |-> d]
  ELSE IF \E fk \in DeclaredForeignKeys : ~d[fk.ref_table].exists
    THEN [ok |-> FALSE, db |-> d]
  ELSE [ok |-> TRUE,
        db |-> [d EXCEPT !["access_logs"] =
                  [AccessLogsTable(edt) EXCEPT
                     !.columns = SubSeq(AccessLogsTable(edt).columns, 1, 6)]]]

CreateTableIfNotExists(d, edt) ==
  IF d["access_logs"].exists
    THEN [ok |-> TRUE, db |-> d]
  ELSE IF \E fk \in DeclaredForeignKeys : ~d[fk.ref_table].exists
    THEN [ok |-> FALSE, db |-> d]
  ELSE [ok |-> TRUE, db |-> [d EXCEPT !["access_logs"] = AccessLogsTable(edt)]]

\* SHOW TABLES LIKE pattern: one row per existing table whose name matches.
RECURSIVE SetToSeq(_)
SetToSeq(S) ==
  IF S = {} THEN <<>>
  ELSE LET x == CHOOSE y \in S : TRUE IN <<x>> \o SetToSeq(S \ {x})

ShowTablesLike(d, pattern) ==
  SetToSeq({n \in TableNames : d[n].exists /\ LikeMatch(Chars(pattern), Chars(n))})

\* DESCRIBE name: one row (Field, Type, Null, Key) per column.
\* Returns [ok, rows]; a missing table is a server error.
Describe(d, name) ==
  IF ~d[name].exists THEN [ok |-> FALSE, rows |-> <<>>]
  ELSE [ok |-> TRUE,
        rows |-> [i \in 1..Len(d[name].columns) |->
                    LET c == d[name].columns[i]
                    IN  <<c.name, c.type, IF c.notnull THEN "NO" ELSE "YES", c.key>>]]

---------------------------------------------------------------------------
(* Python exceptions and the two except clauses (lines 75-80).             *)

Base(cls) ==
  CASE cls = "mysql.connector.Error" -> "Exception"
    [] cls = "Exception"             -> "BaseException"
    [] cls = "SystemExit"            -> "BaseException"
    [] OTHER                         -> "object"

RECURSIVE IsInstance(_, _)
IsInstance(cls, target) ==
  IF cls = target THEN TRUE
  ELSE IF cls = "object" THEN FALSE
  ELSE IsInstance(Base(cls), target)

\* The clause that handles an exception of class cls raised in the try
\* block: the clauses are tried in order, the first match wins.
CatchGenericFirst(cls) ==
  IF IsInstance(cls, "Exception") THEN "generic"
  ELSE IF IsInstance(cls, "mysql.connector.Error") THEN "mysql"
  ELSE "uncaught"

Catch(cls) ==
  IF IsInstance(cls, "mysql.connector.Error") THEN "mysql"
  ELSE IF IsInstance(cls, "Exception") THEN "generic"
  ELSE "uncaught"

\* `if result:` (line 56): a list is true when it is not empty.
TruthyNotNone(r) == TRUE

Truthy(r) == r # <<>>

\* The annotation printed for a DESCRIBE row (line 64).  col[2] of the
\* source is the third field, the catalog's Null flag.
NullabilityFromType(col) == IF col[2] = "NO" THEN "NOT NULL" ELSE "NULL"

Nullability(col) == IF col[3] = "NO" THEN "NOT NULL" ELSE "NULL"

\* The statement that follows p in the try block when p completes.
SuccNoClose(p) ==
  CASE p = "connect"          -> "cursor"
    [] p = "cursor"           -> "ddl"
    [] p = "ddl"              -> "commit"
    [] p = "commit"           -> "show"
    [] p = "show"             -> "verify"
    [] p = "verify"           -> "describe"
    [] p = "describe"         -> "done"
    [] p = "cursor.close"     -> "connection.close"
    [] p = "connection.close" -> "done"

SuccVerifyBeforeCommit(p) ==
  CASE p = "connect"          -> "cursor"
    [] p = "cursor"           -> "ddl"
    [] p = "ddl"              -> "show"
    [] p = "show"             -> "commit"
    [] p = "commit"           -> "verify"
    [] p = "verify"           -> "describe"
    [] p = "describe"         -> "cursor.close"
    [] p = "cursor.close"     -> "connection.close"
    [] p = "connection.close" -> "done"

SuccCloseBeforeDescribe(p) ==
  CASE p = "connect"          -> "cursor"
    [] p = "cursor"           -> "ddl"
    [] p = "ddl"              -> "commit"
    [] p = "commit"           -> "show"
    [] p = "show"             -> "verify"
    [] p = "verify"           -> "connection.close"
    [] p = "connection.close" -> "describe"
    [] p = "describe"         -> "cursor.close"
    [] p = "cursor.close"     -> "done"

Succ(p) ==
  CASE p = "connect"          -> "cursor"
    [] p = "cursor"           -> "ddl"
    [] p = "ddl"              -> "commit"
    [] p = "commit"           -> "show"
    [] p = "show"             -> "verify"
    [] p = "verify"           -> "describe"
    [] p = "describe"         -> "cursor.close"
    [] p = "cursor.close"     -> "connection.close"
    [] p = "connection.close" -> "done"

---------------------------------------------------------------------------
(* State.                                                                  *)

VARIABLES
  db,          \* the server's tables: [TableNames -> table]
  explicit_defaults_for_timestamp,  \* server option, fixed for a behaviour
  pc,          \* the statement the script is at
  connection,  \* "none" | "open" | "closed"
  cursor,      \* "none" | "open" | "closed"
  result,      \* rows fetched after SHOW TABLES (line 54)
  columns,     \* rows fetched after DESCRIBE (line 61)
  stdout,      \* lines printed in this run: [tag, args]
  raised,      \* the exception in flight: [class, arg]
  exit_code,   \* the process's exit status, meaningful when pc = "exited"
  steps,       \* library calls issued in this run: [call, outcome]
  db0,         \* the database as the current run found it
  exits        \* exit codes of the runs completed before the current one

vars == <<db, explicit_defaults_for_timestamp, pc, connection, cursor, result,
          columns, stdout, raised, exit_code, steps, db0, exits>>

Line(tag, args) == [tag |-> tag, args |-> args]

NoException == [class |-> "none", arg |-> 0]

\* What a library call can do: return, raise a database-client error, or
\* raise some other Exception.
Raises == {"mysql.connector.Error", "Exception"}

CallOutcomes == {"ok"} \cup Raises

Returned(o) == o \in {"ok", "silent_noop"}

\* A resource after close() was called on it: released when the call
\* returns; a close() that raises has not completed.
Closed(res, o) == IF o = "ok" THEN "closed" ELSE res

---------------------------------------------------------------------------
(* Databases a run can find.                                               *)

PumpUsersTable ==
  [exists |-> TRUE, columns |-> <<Col("id", "int", TRUE, "PRI")>>,
   indexes |-> {}, fks |-> {}, rows |-> {}]

\* An access_logs table that some earlier tool created with another layout.
LegacyAccessLogs ==
  [exists  |-> TRUE,
   columns |-> << Col("id", "int", TRUE, "PRI"),
                  Col("user", "varchar(255)", FALSE, ""),
                  Col("action", "varchar(50)", FALSE, "") >>,
   indexes |-> {}, fks |-> {}, rows |-> {}]

\* A table whose name the pattern 'access_logs' also matches.
LookalikeTable ==
  [exists |-> TRUE, columns |-> <<Col("id", "int", TRUE, "PRI")>>,
   indexes |-> {}, fks |-> {}, rows |-> {}]

WithRows(t) == {[t EXCEPT !.rows = r] : r \in SUBSET (1..MaxRows)}

\* Referential sanity: a table with a foreign key has its referenced table.
Consistent(d) ==
  \A n \in TableNames : \A fk \in d[n].fks : d[fk.ref_table].exists

Databases(edt) ==
  {d \in [TableNames -> {NoTable} \cup WithRows(PumpUsersTable)
                          \cup WithRows(AccessLogsTable(edt))
                          \cup WithRows(LegacyAccessLogs) \cup {LookalikeTable}] :
     /\ d["pump_users"] \in {NoTable} \cup WithRows(PumpUsersTable)
     /\ d["access_logs"] \in {NoTable} \cup WithRows(AccessLogsTable(edt))
                              \cup WithRows(LegacyAccessLogs)
     /\ d["access1logs"] \in {NoTable, LookalikeTable}
     /\ Consistent(d)}

ScriptStart ==
  /\ pc = "connect"
  /\ connection = "none"
  /\ cursor = "none"
  /\ result = <<>>
  /\ columns = <<>>
  /\ stdout = <<>>
  /\ raised = NoException
  /\ exit_code = 0
  /\ steps = <<>>

Init ==
  /\ explicit_defaults_for_timestamp \in BOOLEAN
  /\ db \in Databases(explicit_defaults_for_timestamp)
  /\ db0 = db
  /\ exits = <<>>
  /\ ScriptStart

---------------------------------------------------------------------------
(* The script, one action per statement that talks to the server or ends   *)
(* the run.                                                                *)

Raise(cls, arg) ==
  /\ raised' = [class |-> cls, arg |-> arg]
  /\ pc' = "raise"

Issue(call, o) == steps' = Append(steps, [call |-> call, outcome |-> o])

\* Lines 9-22: print, mysql.connector.connect(...), print.
Connect ==
  /\ pc = "connect"
  /\ \E o \in CallOutcomes :
       /\ Issue("connect", o)
       /\ IF o = "ok"
            THEN /\ connection' = "open"
                 /\ stdout' = stdout \o <<Line("connecting", <<>>), Line("connected", <<>>)>>
                 /\ pc' = Succ(pc)
                 /\ UNCHANGED raised
            ELSE /\ stdout' = Append(stdout, Line("connecting", <<>>))
                 /\ Raise(o, 0)
                 /\ UNCHANGED connection
  /\ UNCHANGED <<db, explicit_defaults_for_timestamp, cursor, result, columns,
                 exit_code, db0, exits>>

\* Line 24: cursor = connection.cursor().
OpenCursor ==
  /\ pc = "cursor"
  /\ \E o \in CallOutcomes :
       /\ Issue("cursor", o)
       /\ IF o = "ok"
            THEN cursor' = "open" /\ pc' = Succ(pc) /\ UNCHANGED raised
            ELSE Raise(o, 0) /\ UNCHANGED cursor
  /\ UNCHANGED <<db, explicit_defaults_for_timestamp, connection, result, columns,
                 stdout, exit_code, db0, exits>>

\* Lines 46-47: print, cursor.execute(create_table_sql).  The server applies
\* the statement (DDL commits implicitly) or rejects it; the call can also
\* fail for another reason, or return although the server applied nothing
\* (the silent no-op the verification of line 56 is there for).
ExecuteCreateTable ==
  /\ pc = "ddl"
  /\ LET r == CreateTableIfNotExists(db, explicit_defaults_for_timestamp)
     IN \E o \in CallOutcomes \cup {"silent_noop"} :
          /\ o = "ok" => r.ok
          /\ o = "silent_noop" => ~db["access_logs"].exists
          /\ Issue("ddl", o)
          /\ db' = IF o = "ok" THEN r.db ELSE db
          /\ IF Returned(o)
               THEN pc' = Succ(pc) /\ UNCHANGED raised
               ELSE Raise(o, 0)
  /\ stdout' = Append(stdout, Line("creating", <<>>))
  /\ UNCHANGED <<explicit_defaults_for_timestamp, connection, cursor, result,
                 columns, exit_code, db0, exits>>

\* Lines 48-50: connection.commit(), print.
Commit ==
  /\ pc = "commit"
  /\ \E o \in CallOutcomes :
       /\ Issue("commit", o)
       /\ IF o = "ok"
            THEN /\ stdout' = Append(stdout, Line("created", <<>>))
                 /\ pc' = Succ(pc)
                 /\ UNCHANGED raised
            ELSE Raise(o, 0) /\ UNCHANGED stdout
  /\ UNCHANGED <<db, explicit_defaults_for_timestamp, connection, cursor, result,
                 columns, exit_code, db0, exits>>

\* Lines 53-54: cursor.execute("SHOW TABLES LIKE 'access_logs'"), fetchall().
ExecuteShowTables ==
  /\ pc = "show"
  /\ \E o \in CallOutcomes :
       /\ Issue("show", o)
       /\ IF o = "ok"
            THEN /\ result' = ShowTablesLike(db, "access_logs")
                 /\ pc' = Succ(pc)
                 /\ UNCHANGED raised
            ELSE Raise(o, 0) /\ UNCHANGED result
  /\ UNCHANGED <<db, explicit_defaults_for_timestamp, connection, cursor, columns,
                 stdout, exit_code, db0, exits>>

\* Lines 56-57: the table was found.
VerifyFound ==
  /\ pc = "verify"
  /\ Truthy(result)
  /\ stdout' = Append(stdout, Line("verification", <<Len(result)>>))
  /\ pc' = Succ(pc)
  /\ UNCHANGED <<db, explicit_defaults_for_timestamp, connection, cursor, result,
                 columns, raised, exit_code, steps, db0, exits>>

\* Lines 65-67: the table was not found: print, sys.exit(1).
VerifyMissing ==
  /\ pc = "verify"
  /\ ~Truthy(result)
  /\ stdout' = Append(stdout, Line("not_found", <<>>))
  /\ Raise("SystemExit", 1)
  /\ UNCHANGED <<db, explicit_defaults_for_timestamp, connection, cursor, result,
                 columns, exit_code, steps, db0, exits>>

\* Lines 60-64: cursor.execute("DESCRIBE access_logs"), fetchall(), and one
\* printed line per row.
ExecuteDescribe ==
  /\ pc = "describe"
  /\ LET r == Describe(db, "access_logs")
     IN \E o \in CallOutcomes :
          /\ o = "ok" => r.ok
          /\ Issue("describe", o)
          /\ IF o = "ok"
               THEN /\ columns' = r.rows
                    /\ stdout' = stdout \o <<Line("structure", <<>>)>> \o
                         [i \in 1..Len(r.rows) |->
                            Line("column", <<r.rows[i][1], r.rows[i][2],
                                             Nullability(r.rows[i])>>)]
                    /\ pc' = Succ(pc)
                    /\ UNCHANGED raised
               ELSE Raise(o, 0) /\ UNCHANGED <<columns, stdout>>
  /\ UNCHANGED <<db, explicit_defaults_for_timestamp, connection, cursor, result,
                 exit_code, db0, exits>>

\* Line 69: cursor.close().
CloseCursor ==
  /\ pc = "cursor.close"
  /\ \E o \in CallOutcomes :
       /\ Issue("cursor.close", o)
       /\ cursor' = Closed(cursor, o)
       /\ IF o = "ok" THEN pc' = Succ(pc) /\ UNCHANGED raised ELSE Raise(o, 0)
  /\ UNCHANGED <<db, explicit_defaults_for_timestamp, connection, result, columns,
                 stdout, exit_code, db0, exits>>

\* Line 70: connection.close().
CloseConnection ==
  /\ pc = "connection.close"
  /\ \E o \in CallOutcomes :
       /\ Issue("connection.close", o)
       /\ connection' = Closed(connection, o)
       /\ IF o = "ok" THEN pc' = Succ(pc) /\ UNCHANGED raised ELSE Raise(o, 0)
  /\ UNCHANGED <<db, explicit_defaults_for_timestamp, cursor, result, columns,
                 stdout, exit_code, db0, exits>>

\* Lines 72-73: print, sys.exit(0).
Done ==
  /\ pc = "done"
  /\ stdout' = Append(stdout, Line("done", <<>>))
  /\ Raise("SystemExit", 0)
  /\ UNCHANGED <<db, explicit_defaults_for_timestamp, connection, cursor, result,
                 columns, exit_code, steps, db0, exits>>

\* Lines 75-77: except mysql.connector.Error: print, sys.exit(1).
ExceptMySQLError ==
  /\ pc = "raise"
  /\ Catch(raised.class) = "mysql"
  /\ stdout' = Append(stdout, Line("mysql_error", <<raised.class>>))
  /\ pc' = "exited"
  /\ exit_code' = 1
  /\ raised' = NoException
  /\ UNCHANGED <<db, explicit_defaults_for_timestamp, connection, cursor, result,
                 columns, steps, db0, exits>>

\* Lines 78-80: except Exception: print, sys.exit(1).
ExceptException ==
  /\ pc = "raise"
  /\ Catch(raised.class) = "generic"
  /\ stdout' = Append(stdout, Line("error", <<raised.class>>))
  /\ pc' = "exited"
  /\ exit_code' = 1
  /\ raised' = NoException
  /\ UNCHANGED <<db, explicit_defaults_for_timestamp, connection, cursor, result,
                 columns, steps, db0, exits>>

\* No clause matches: SystemExit leaves the try statement and ends the
\* process with its argument as the status.
Uncaught ==
  /\ pc = "raise"
  /\ Catch(raised.class) = "uncaught"
  /\ pc' = "exited"
  /\ exit_code' = raised.arg
  /\ raised' = NoException
  /\ UNCHANGED <<db, explicit_defaults_for_timestamp, connection, cursor, result,
                 columns, stdout, steps, db0, exits>>

\* The script is run again.  It finds the database the last run left, to
\* which the application that owns access_logs may have added a row.
FoundByNextRun(d) ==
  {d} \cup {[d EXCEPT !["access_logs"].rows = @ \cup {r}] :
              r \in IF d["access_logs"].exists
                      THEN (1..MaxRows) \ d["access_logs"].rows ELSE {}}

StartRun ==
  /\ pc = "exited"
  /\ Len(exits) + 1 < MaxRuns
  /\ exits' = Append(exits, exit_code)
  /\ db' \in FoundByNextRun(db)
  /\ db0' = db'
  /\ pc' = "connect"
  /\ connection' = "none"
  /\ cursor' = "none"
  /\ result' = <<>>
  /\ columns' = <<>>
  /\ stdout' = <<>>
  /\ raised' = NoException
  /\ exit_code' = 0
  /\ steps' = <<>>
  /\ UNCHANGED explicit_defaults_for_timestamp

Next ==
  \/ Connect
  \/ OpenCursor
  \/ ExecuteCreateTable
  \/ Commit
  \/ ExecuteShowTables
  \/ VerifyFound
  \/ VerifyMissing
  \/ ExecuteDescribe
  \/ CloseCursor
  \/ CloseConnection
  \/ Done
  \/ ExceptMySQLError
  \/ ExceptException
  \/ Uncaught
  \/ StartRun

Spec == Init /\ [][Next]_vars

---------------------------------------------------------------------------
(* Vocabulary of the properties.                                           *)

Exited == pc = "exited"

CallsIssued == [i \in 1..Len(steps) |-> steps[i].call]

Issued(call) == \E i \in 1..Len(steps) : steps[i].call = call

Completed(call) ==
  \E i \in 1..Len(steps) : steps[i].call = call /\ steps[i].outcome = "ok"

Failed(call) ==
  \E i \in 1..Len(steps) : steps[i].call = call /\ steps[i].outcome \in Raises

NoStepRaised == \A i \in 1..Len(steps) : steps[i].outcome \notin Raises

EveryStepOk == \A i \in 1..Len(steps) : steps[i].outcome = "ok"

Printed(tag) == \E i \in 1..Len(stdout) : stdout[i].tag = tag

IsPrefix(s, t) == Len(s) <= Len(t) /\ \A i \in 1..Len(s) : s[i] = t[i]

FullRun ==
  << "connect", "cursor", "ddl", "commit", "show", "describe",
     "cursor.close", "connection.close" >>

SevenColumns ==
  << "id", "user_id", "access_type", "payment_amount_cents", "ip_address",
     "user_agent", "created_at" >>

HasSchemaOfSection3(t) ==
  /\ t.exists
  /\ [i \in 1..Len(t.columns) |-> t.columns[i].name] = SevenColumns
  /\ t.indexes = {"user_id", "access_type", "created_at"}
  /\ t.fks = {[column |-> "user_id", ref_table |-> "pump_users",
               ref_column |-> "id", on_delete |-> "CASCADE"]}

\* The column lines of the listing, in the order printed.
RECURSIVE ColumnLines(_)
ColumnLines(out) ==
  IF out = <<>> THEN <<>>
  ELSE IF Head(out).tag = "column"
    THEN <<Head(out).args>> \o ColumnLines(Tail(out))
  ELSE ColumnLines(Tail(out))

---------------------------------------------------------------------------
(* C1: a run exits 0 only if every step succeeded (connect, cursor, DDL,   *)
(* commit, SHOW TABLES with at least one row, DESCRIBE, both closes);      *)
(* every other run that exits does so with code 1; and when SHOW TABLES    *)
(* returned no row, DESCRIBE is never executed.                            *)
C1_ExitCodes ==
  /\ Exited => exit_code \in {0, 1}
  /\ (Exited /\ exit_code = 0) =>
       /\ CallsIssued = FullRun
       /\ NoStepRaised
       /\ result # <<>>
       /\ cursor = "closed"
       /\ connection = "closed"
  /\ (Exited /\ (~NoStepRaised \/ (Completed("show") /\ result = <<>>))) =>
       exit_code = 1
  /\ (Completed("show") /\ result = <<>>) => ~Issued("describe")

C1_Witness ==
  /\ Exited /\ exit_code = 1
  /\ NoStepRaised
  /\ Completed("show") /\ result = <<>>
  /\ Printed("not_found")

(* C2: when the previous run exited 0 and no step of the current run       *)
(* raises, the current run exits 0 too; and at every point of such a run,  *)
(* its exit included, access_logs (layout and rows) and every other table  *)
(* are exactly as the run found them.                                      *)
C2_SecondRunIdempotent ==
  (Len(exits) >= 1 /\ exits[Len(exits)] = 0) =>
     /\ db = db0
     /\ (Exited /\ NoStepRaised) => exit_code = 0

C2_Witness ==
  /\ Len(exits) >= 1 /\ exits[Len(exits)] = 0
  /\ Exited /\ exit_code = 0
  /\ db = db0
  /\ db["access_logs"].rows # {}

C4_AsStated ==
  (Exited /\ ~db0["pump_users"].exists) => exit_code = 1

(* C4 amended: when neither pump_users nor access_logs exists as the run   *)
(* starts, access_logs is never created and the run exits 1.               *)
C4_MissingPumpUsers ==
  (~db0["pump_users"].exists /\ ~db0["access_logs"].exists) =>
     /\ ~db["access_logs"].exists
     /\ ~Completed("ddl")
     /\ Exited => exit_code = 1

C4_Witness ==
  /\ Exited /\ exit_code = 1
  /\ ~db0["pump_users"].exists /\ ~db0["access_logs"].exists
  /\ Failed("ddl")
  /\ steps[Len(steps)].outcome = "mysql.connector.Error"
  /\ Printed("mysql_error")

(* C5: an error raised by a step is the last thing the run asks of the     *)
(* server; a mysql.connector.Error (a failed connection included) prints   *)
(* the 'MySQL Error' line and never the generic one, any other exception   *)
(* prints the generic 'Error' line and never the database one, exactly one *)
(* such line is printed, and the run exits 1.                              *)
C5_TwoHandlers ==
  /\ \A i \in 1..Len(steps) : steps[i].outcome \in Raises => i = Len(steps)
  /\ \A i \in 1..Len(steps) :
       (Exited /\ steps[i].outcome = "mysql.connector.Error") =>
          /\ Printed("mysql_error") /\ ~Printed("error")
          /\ exit_code = 1
  /\ \A i \in 1..Len(steps) :
       (Exited /\ steps[i].outcome = "Exception") =>
          /\ Printed("error") /\ ~Printed("mysql_error")
          /\ exit_code = 1
  /\ Cardinality({i \in 1..Len(stdout) : stdout[i].tag \in {"mysql_error", "error"}}) <= 1
  /\ (Exited /\ NoStepRaised) => ~Printed("mysql_error") /\ ~Printed("error")

C5_Witness ==
  /\ Exited /\ exit_code = 1
  /\ steps = <<[call |-> "connect", outcome |-> "mysql.connector.Error"]>>
  /\ Printed("mysql_error") /\ ~Printed("error")
  /\ connection = "none"

(* C6: the calls of a run are issued in the order connect, cursor, DDL,    *)
(* commit, SHOW TABLES, DESCRIBE, close cursor, close connection, each at  *)
(* most once, each only after every earlier one returned without error;    *)
(* nothing is issued after a failed connect, and the commit has returned   *)
(* before the verification query is issued.                                *)
C6_FixedOrder ==
  /\ IsPrefix(CallsIssued, FullRun)
  /\ \A i \in 1..Len(steps) : i < Len(steps) => steps[i].outcome \notin Raises
  /\ \A i, j \in 1..Len(steps) : steps[i].call = steps[j].call => i = j
  /\ Failed("connect") => Len(steps) = 1
  /\ Issued("show") => Completed("commit")
  /\ (Exited /\ exit_code = 0) => CallsIssued = FullRun

C6_Witness ==
  /\ Exited
  /\ CallsIssued = FullRun
  /\ steps[Len(steps)].outcome = "Exception"

\* The listing names the seven columns, one line each, annotates each line
\* from the Null flag of the row it was fetched from, and marks id, user_id
\* and access_type NOT NULL and ip_address and user_agent NULL.
ListingMatchesSection3 ==
  LET lines == ColumnLines(stdout)
  IN /\ [i \in 1..Len(lines) |-> lines[i][1]] = SevenColumns
     /\ Len(columns) = Len(lines)
     /\ \A i \in 1..Len(lines) :
          /\ lines[i][3] \in {"NOT NULL", "NULL"}
          /\ lines[i][3] = "NOT NULL" <=> columns[i][3] = "NO"
          /\ lines[i][1] \in {"id", "user_id", "access_type"} => lines[i][3] = "NOT NULL"
          /\ lines[i][1] \in {"ip_address", "user_agent"} => lines[i][3] = "NULL"

(* C7 as stated: in every run that exits 0 the listing names exactly the   *)
(* seven columns, one line each, with the annotations of the schema table. *)
C7_AsStated ==
  (Exited /\ exit_code = 0) => ListingMatchesSection3

(* C7 amended: in every run that exits 0 and found access_logs either      *)
(* absent or already laid out as the script's statement lays it out, the   *)
(* listing names exactly the seven columns, one line each, each annotated  *)
(* NOT NULL exactly when the row's Null flag is 'NO', with id, user_id and *)
(* access_type NOT NULL and ip_address and user_agent NULL; and in every   *)
(* run that exits 0 the listing has one line per row DESCRIBE returned,    *)
(* annotated from that row's Null flag.                                    *)
C7_ColumnListing ==
  /\ (Exited /\ exit_code = 0
        /\ (~db0["access_logs"].exists \/ HasSchemaOfSection3(db0["access_logs"]))) =>
          ListingMatchesSection3
  /\ (Exited /\ exit_code = 0) =>
       LET lines == ColumnLines(stdout)
       IN /\ Len(lines) = Len(columns)
          /\ Len(lines) = Len(db["access_logs"].columns)
          /\ \A i \in 1..Len(lines) :
               /\ lines[i][1] = columns[i][1]
               /\ lines[i][3] = "NOT NULL" <=> columns[i][3] = "NO"
               /\ lines[i][3] = "NULL" <=> columns[i][3] # "NO"

C7_Witness ==
  /\ Exited /\ exit_code = 0
  /\ ListingMatchesSection3
  /\ \E i \in 1..Len(columns) : columns[i][1] = "created_at" /\ columns[i][3] = "YES"

(* C8: in every run that exits 0 the cursor was closed, then the           *)
(* connection, both before the exit, and neither is open at the end.       *)
C8_ReleasedOnSuccess ==
  (Exited /\ exit_code = 0) =>
     /\ cursor = "closed"
     /\ connection = "closed"
     /\ \E i, j \in 1..Len(steps) :
          /\ i < j
          /\ steps[i] = [call |-> "cursor.close", outcome |-> "ok"]
          /\ steps[j] = [call |-> "connection.close", outcome |-> "ok"]
     /\ stdout[Len(stdout)].tag = "done"

C8_Witness ==
  /\ Exited /\ exit_code = 0
  /\ cursor = "closed" /\ connection = "closed"
  /\ Len(exits) = 0

(* C9: a run that opened the connection and then fails at the cursor, the  *)
(* DDL, the commit, SHOW TABLES or DESCRIBE, or finds no row after SHOW    *)
(* TABLES, exits 1 without having called close on the cursor or on the     *)
(* connection, which is still open at the exit; a connection a run opened  *)
(* is closed at the exit if and only if the run exits 0.                   *)
C9_LeakOnFailure ==
  /\ (Exited /\ Completed("connect")
        /\ (\/ \E c \in {"cursor", "ddl", "commit", "show", "describe"} : Failed(c)
            \/ (Completed("show") /\ result = <<>>))) =>
          /\ exit_code = 1
          /\ ~Issued("cursor.close") /\ ~Issued("connection.close")
          /\ connection = "open"
          /\ cursor # "closed"
  /\ (Exited /\ Completed("connect")) =>
          (connection = "closed" <=> exit_code = 0)
  /\ connection = "closed" => cursor = "closed"

C9_Witness ==
  /\ Exited /\ exit_code = 1
  /\ Failed("commit")
  /\ connection = "open" /\ cursor = "open"

(* C10: no step of a run changes pump_users, any other table, or an        *)
(* access_logs that exists (layout or rows); the one change a run makes is *)
(* the DDL step creating access_logs where there was none, and no later    *)
(* step or failure removes it.                                             *)
C10_OnlyCreates ==
  [][pc # "exited" =>
       /\ db'["pump_users"] = db["pump_users"]
       /\ db'["access1logs"] = db["access1logs"]
       /\ db["access_logs"].exists => db'["access_logs"] = db["access_logs"]
       /\ db' # db => /\ pc = "ddl"
                      /\ ~db["access_logs"].exists
                      /\ HasSchemaOfSection3(db'["access_logs"])]_vars

C10_Witness ==
  /\ Exited /\ exit_code = 1
  /\ ~db0["access_logs"].exists
  /\ db["access_logs"].exists
  /\ Failed("describe")

====
